---- MODULE Spec2Model ----
(***************************************************************************)
(* Term algebra of shenfun/forms/arguments.py: Expr and the BasisFunction  *)
(* hierarchy.                                                              *)
(*                                                                         *)
(* numpy arrays are modelled as row sequences: a 2-d array (scales,        *)
(* indices) is a sequence of rows of integers, a 3-d array (terms) a       *)
(* sequence of rows of term vectors.  An array held by an Expr is a        *)
(* reference [buf, lo, n] to rows lo+1..lo+n of a buffer, so that a numpy  *)
(* view (basic indexing) shares its buffer with the array it was taken     *)
(* from while np.concatenate, .copy(), unary minus and np.zeros/ones/      *)
(* arange allocate a new buffer.  Scale values are integers (exactly       *)
(* representable in the float64 arrays np.ones creates).  A failed assert  *)
(* or a raised exception is the outcome err # "none" of the operation.     *)
(***************************************************************************)
EXTENDS Integers, Sequences, FiniteSets, TLC

VARIABLES objs, bufs, last, nops

vars == <<objs, bufs, last, nops>>

\* ------------------------------------------------------------------ bounds
\* Operator applications of a behaviour that create or change an Expr.
MaxOps == 3
\* Largest second extent of an explicit scales tensor.
MaxTerms == 2
\* Largest leading extent (components) of an explicit tensor.
MaxComp == 2
\* Largest component index tried in [i].
MaxIndex == 2

\* ------------------------------------------------- function spaces (external)
\* A function space: its name, the component it is a sub-space of its parent
\* for (0: not a sub-space), its number of components and of dimensions.
ScalarSpace(name, nd) == [name |-> name, comp |-> 0, nc |-> 1, nd |-> nd]

VectorSpace(name, nd) == [name |-> name, comp |-> 0, nc |-> nd, nd |-> nd]

\* space.rank(): 1 for a scalar space, 2 for a vector space.
SpaceRank(space) == IF space.nc = 1 THEN 1 ELSE 2

\* space[i]: the i-th scalar sub-space; out of range is an IndexError.
SubSpaceOk(space, i) == i < space.nc

SubSpace(space, i) == [name |-> space.name, comp |-> i + 1, nc |-> 1, nd |-> space.nd]

\* ---------------------------------------------------------- BasisFunction
\* BasisFunction.__init__(space, argument, index)
BasisFunction(space, argument, index) ==
    [cls |-> "BasisFunction", space |-> space, argument |-> argument, index |-> index]

\* TestFunction.__init__(space, index): argument 0
TestFunction(space, index) ==
    [cls |-> "TestFunction", space |-> space, argument |-> 0, index |-> index]

\* TrialFunction.__init__(space, index): argument 1
TrialFunction(space, index) ==
    [cls |-> "TrialFunction", space |-> space, argument |-> 1, index |-> index]

\* BasisFunction.rank()
BasisRank(b) == SpaceRank(b.space)

\* BasisFunction.__getitem__ and its overrides in TestFunction and
\* TrialFunction: assert rank 2, then the same class on the sub-space.
BasisGetItemErr(b, i) ==
    IF BasisRank(b) # 2 THEN "AssertionError"
    ELSE IF ~SubSpaceOk(b.space, i) THEN "IndexError"
    ELSE "none"

BasisGetItem(b, i) ==
    CASE b.cls = "TestFunction" -> TestFunction(SubSpace(b.space, i), i)
      [] b.cls = "TrialFunction" -> TrialFunction(SubSpace(b.space, i), i)
      [] OTHER -> BasisFunction(SubSpace(b.space, i), b.argument, i)

\* ------------------------------------------------------------------ numpy
\* shape[0], shape[1], shape[2] of an array value (no extent is 0 here).
Dim0(a) == Len(a)

Dim1(a) == Len(a[1])

Dim2(a) == Len(a[1][1])

\* np.prod(a.shape) of a 2-d array
Size2(a) == Dim0(a) * Dim1(a)

\* np.zeros((c, t, d)), np.ones((c, t)), np.arange(c)[:, np.newaxis]
Zeros3(c, t, d) == [i \in 1..c |-> [j \in 1..t |-> [k \in 1..d |-> 0]]]

Ones2(c, t) == [i \in 1..c |-> [j \in 1..t |-> 1]]

ArangeCol(c) == [i \in 1..c |-> <<i - 1>>]

\* np.concatenate((x, y), axis=1): every extent but that of axis 1 must agree.
ConcatOk2(x, y) == Dim0(x) = Dim0(y)

ConcatOk3(x, y) == Dim0(x) = Dim0(y) /\ Dim2(x) = Dim2(y)

Concat1(x, y) == [i \in 1..Dim0(x) |-> x[i] \o y[i]]

\* -a and a * s, elementwise, of a 2-d array
Negate2(a) == [i \in 1..Dim0(a) |-> [j \in 1..Len(a[i]) |-> 0 - a[i][j]]]

Scale2(a, s) == [i \in 1..Dim0(a) |-> [j \in 1..Len(a[i]) |-> a[i][j] * s]]

\* a[i] = a[i] * s: row i (0-based) of a 2-d array scaled in place
ScaleRow(a, i, s) ==
    [r \in 1..Dim0(a) |-> IF r = i + 1 THEN [j \in 1..Len(a[r]) |-> a[r][j] * s] ELSE a[r]]

\* ------------------------------------------------------------------- heap
\* The rows an array reference denotes.
RowsOf(bf, ref) == SubSeq(bf[ref.buf], ref.lo + 1, ref.lo + ref.n)

\* The three tensors of an Expr object as array values.
TermsOf(ob, bf, x) == RowsOf(bf, ob[x].terms)

ScalesOf(ob, bf, x) == RowsOf(bf, ob[x].scales)

IndicesOf(ob, bf, x) == RowsOf(bf, ob[x].indices)

\* A buffer id not in use.
FreshBuf(bf) == CHOOSE b \in 1..(Cardinality(DOMAIN bf) + 1) : b \notin DOMAIN bf

\* bf with a new buffer holding the array value a
Alloc(bf, a) == [b \in DOMAIN bf \cup {FreshBuf(bf)} |-> IF b \in DOMAIN bf THEN bf[b] ELSE a]

WholeRef(b, a) == [buf |-> b, lo |-> 0, n |-> Len(a)]

\* Buffers no Expr refers to are reclaimed.
Referenced(ob) ==
    UNION {{ob[x].terms.buf, ob[x].scales.buf, ob[x].indices.buf} : x \in DOMAIN ob}

Collect(ob, bf) == [b \in DOMAIN bf \cap Referenced(ob) |-> bf[b]]


\* ------------------------------------------------------------ Expr (values)
\* An Expr by value: its basis and its three tensors as array values.  None
\* (a keyword argument left out) is the empty sequence.
None == <<>>

\* Expr.__init__: the defaults of the one-term identity Expr, then the assert
\* on the size of scales.
ExprInit(basis, terms, scales, indices) ==
    LET nc == basis.space.nc
        t == IF terms = None THEN Zeros3(nc, 1, basis.space.nd) ELSE terms
        s == IF scales = None THEN Ones2(nc, 1) ELSE scales
        i == IF indices = None THEN ArangeCol(nc) ELSE indices
    IN  [err |-> IF Size2(s) = Dim1(t) * Dim0(t) THEN "none" ELSE "AssertionError",
         basis |-> basis, terms |-> t, scales |-> s, indices |-> i]

\* Expr.num_components(), num_terms(), dim(), expr_rank(), rank(), argument(),
\* function_space()
NumComponents(e) == Dim0(e.terms)

NumTerms(e) == Dim1(e.terms)

ExprDim(e) == Dim2(e.terms)

ExprRank(e) == IF Dim0(e.terms) = 1 THEN 1 ELSE 2

Rank(e) == BasisRank(e.basis)

Argument(e) == e.basis.argument

FunctionSpace(e) == e.basis.space

\* __getitem__ refusing every Expr whose basis is not of rank 2.
ExprGetItemErrRank2(e, i) ==
    IF Rank(e) # 2 THEN "AssertionError"
    ELSE IF BasisGetItemErr(e.basis, i) # "none" THEN BasisGetItemErr(e.basis, i)
    ELSE IF i >= Dim0(e.terms) \/ i >= Dim0(e.scales) \/ i >= Dim0(e.indices)
         THEN "IndexError"
    ELSE "none"

\* Expr.__getitem__: the basis is re-bound only when its rank is 2; the i-th
\* rows of the three tensors, each under a new leading axis, go through
\* Expr.__init__.
ExprGetItemErr(e, i) ==
    IF Rank(e) = 2 /\ BasisGetItemErr(e.basis, i) # "none" THEN BasisGetItemErr(e.basis, i)
    ELSE IF i >= Dim0(e.terms) \/ i >= Dim0(e.scales) \/ i >= Dim0(e.indices)
         THEN "IndexError"
    ELSE "none"

ExprGetItem(e, i) ==
    IF ExprGetItemErr(e, i) # "none"
    THEN [err |-> ExprGetItemErr(e, i), basis |-> e.basis, terms |-> e.terms,
          scales |-> e.scales, indices |-> e.indices]
    ELSE ExprInit(IF Rank(e) = 2 THEN BasisGetItem(e.basis, i) ELSE e.basis,
                  <<e.terms[i + 1]>>, <<e.scales[i + 1]>>, <<e.indices[i + 1]>>)

\* The loop of __mul__ and __imul__ over a tuple a, from iteration i:
\*     for i in range(self.dim()): assert isinstance(a[i], Number)
\*                                 sc[i] = sc[i]*a[i]
\* It stops at the first element that is no number, or the first row sc does
\* not have, with the rows before it already scaled.
RECURSIVE TupleLoop(_, _, _, _)
TupleLoop(sc, elems, i, n) ==
    IF i >= n THEN [err |-> "none", sc |-> sc]
    ELSE IF ~elems[i + 1].num THEN [err |-> "AssertionError", sc |-> sc]
    ELSE IF i >= Dim0(sc) THEN [err |-> "IndexError", sc |-> sc]
    ELSE TupleLoop(ScaleRow(sc, i, elems[i + 1].v), elems, i + 1, n)

\* __mul__ without the assert on the length of the tuple, looping over the
\* tuple.
MulScalesAnyLength(e, a) ==
    IF ExprRank(e) = 1
    THEN IF a.kind = "num" THEN [err |-> "none", sc |-> Scale2(e.scales, a.v)]
         ELSE [err |-> "AssertionError", sc |-> e.scales]
    ELSE CASE a.kind = "tuple" -> TupleLoop(e.scales, a.elems, 0, Len(a.elems))
           [] a.kind = "num" -> [err |-> "none", sc |-> Scale2(e.scales, a.v)]
           [] OTHER -> [err |-> "NotImplementedError", sc |-> e.scales]

\* The scales __mul__ computes on its copy, and the error it ends with.
MulScales(e, a) ==
    IF ExprRank(e) = 1
    THEN IF a.kind = "num" THEN [err |-> "none", sc |-> Scale2(e.scales, a.v)]
         ELSE [err |-> "AssertionError", sc |-> e.scales]
    ELSE CASE a.kind = "tuple" ->
                IF Len(a.elems) # ExprDim(e) THEN [err |-> "AssertionError", sc |-> e.scales]
                ELSE TupleLoop(e.scales, a.elems, 0, ExprDim(e))
           [] a.kind = "num" -> [err |-> "none", sc |-> Scale2(e.scales, a.v)]
           [] OTHER -> [err |-> "NotImplementedError", sc |-> e.scales]

\* Expr.__mul__: a new Expr of copies, with the scaled copy of scales.
ExprMul(e, a) ==
    LET m == MulScales(e, a)
    IN  IF m.err # "none"
        THEN [err |-> m.err, basis |-> e.basis, terms |-> e.terms,
              scales |-> e.scales, indices |-> e.indices]
        ELSE ExprInit(e.basis, e.terms, m.sc, e.indices)

\* Expr.__rmul__ delegates to __mul__.
ExprRMul(e, a) == ExprMul(e, a)

\* __imul__ scaling a copy of the scales, the receiver's own left alone.
ExprIMulOnCopy(e, a) ==
    IF ExprRank(e) = 1 /\ a.kind # "num" THEN [err |-> "AssertionError", sc |-> e.scales]
    ELSE IF ExprRank(e) = 2 /\ a.kind = "tuple" /\ Len(a.elems) # ExprDim(e)
    THEN [err |-> "AssertionError", sc |-> e.scales]
    ELSE IF a.kind = "other" THEN [err |-> "NotImplementedError", sc |-> e.scales]
    ELSE [err |-> "none", sc |-> e.scales]

\* Expr.__imul__: the same branches on self.scales() itself; what the loop
\* has written stays written when it fails.
ExprIMul(e, a) ==
    IF ExprRank(e) = 1
    THEN IF a.kind = "num" THEN [err |-> "none", sc |-> Scale2(e.scales, a.v)]
         ELSE [err |-> "AssertionError", sc |-> e.scales]
    ELSE CASE a.kind = "tuple" ->
                IF Len(a.elems) # ExprDim(e) THEN [err |-> "AssertionError", sc |-> e.scales]
                ELSE TupleLoop(e.scales, a.elems, 0, ExprDim(e))
           [] a.kind = "num" -> [err |-> "none", sc |-> Scale2(e.scales, a.v)]
           [] OTHER -> [err |-> "NotImplementedError", sc |-> e.scales]

\* The asserts without the one on the argument.
CompatibleButArgument(e, a) ==
    /\ NumComponents(e) = NumComponents(a)
    /\ FunctionSpace(e) = FunctionSpace(a)

\* The asserts of __add__, __iadd__, __sub__ and __isub__ on the operand a,
\* once lifted: same number of components, same space, same argument.
Compatible(e, a) ==
    /\ NumComponents(e) = NumComponents(a)
    /\ FunctionSpace(e) = FunctionSpace(a)
    /\ Argument(e) = Argument(a)

\* The three concatenations along axis 1, in the order the code makes them;
\* sign is 1 for add and -1 for sub (the right operand's scales negated).
\* done counts the concatenations made before one failed.
ConcatAll(e, a, sign) ==
    LET sa == IF sign = 1 THEN a.scales ELSE Negate2(a.scales)
    IN  IF ~ConcatOk3(e.terms, a.terms)
        THEN [err |-> "ValueError", done |-> 0, terms |-> e.terms,
              scales |-> e.scales, indices |-> e.indices]
        ELSE IF ~ConcatOk2(e.scales, sa)
        THEN [err |-> "ValueError", done |-> 1, terms |-> Concat1(e.terms, a.terms),
              scales |-> e.scales, indices |-> e.indices]
        ELSE IF ~ConcatOk2(e.indices, a.indices)
        THEN [err |-> "ValueError", done |-> 2, terms |-> Concat1(e.terms, a.terms),
              scales |-> Concat1(e.scales, sa), indices |-> e.indices]
        ELSE [err |-> "none", done |-> 3, terms |-> Concat1(e.terms, a.terms),
              scales |-> Concat1(e.scales, sa), indices |-> Concat1(e.indices, a.indices)]

\* Expr.__add__ and Expr.__sub__ on an operand already lifted to an Expr.
ExprAddSub(e, a, sign) ==
    LET c == ConcatAll(e, a, sign)
    IN  IF ~Compatible(e, a)
        THEN [err |-> "AssertionError", basis |-> e.basis, terms |-> e.terms,
              scales |-> e.scales, indices |-> e.indices]
        ELSE IF c.err # "none"
        THEN [err |-> c.err, basis |-> e.basis, terms |-> e.terms,
              scales |-> e.scales, indices |-> e.indices]
        ELSE ExprInit(e.basis, c.terms, c.scales, c.indices)

ExprAdd(e, a) == ExprAddSub(e, a, 1)

ExprSub(e, a) == ExprAddSub(e, a, -1)

\* Expr.__iadd__ and Expr.__isub__: the receiver's fields are assigned one
\* concatenation at a time, with no call of Expr.__init__.
ExprIAddSub(e, a, sign) ==
    LET c == ConcatAll(e, a, sign)
    IN  IF ~Compatible(e, a)
        THEN [err |-> "AssertionError", done |-> 0, terms |-> e.terms,
              scales |-> e.scales, indices |-> e.indices]
        ELSE c

ExprIAdd(e, a) == ExprIAddSub(e, a, 1)

ExprISub(e, a) == ExprIAddSub(e, a, -1)

\* __neg__ that copies the scales without negating them.
ExprNegKeepsSign(e) == ExprInit(e.basis, e.terms, e.scales, e.indices)

\* Expr.__neg__
ExprNeg(e) == ExprInit(e.basis, e.terms, Negate2(e.scales), e.indices)


\* ------------------------------------------------------------ Expr (objects)
\* Object x of the heap by value.
Deref(ob, bf, x) ==
    [basis |-> ob[x].basis, terms |-> TermsOf(ob, bf, x),
     scales |-> ScalesOf(ob, bf, x), indices |-> IndicesOf(ob, bf, x)]

\* A new Expr instance holding three newly allocated arrays (the arrays that
\* np.zeros, np.concatenate, .copy() and unary minus return).  by and from
\* record the operator that made it and the instances it took as operands.
StoreNew(ob, bf, r, by, from) ==
    LET bf1 == Alloc(bf, r.terms)
        bf2 == Alloc(bf1, r.scales)
        bf3 == Alloc(bf2, r.indices)
    IN  [objs |-> Append(ob, [basis |-> r.basis,
                              terms |-> WholeRef(FreshBuf(bf), r.terms),
                              scales |-> WholeRef(FreshBuf(bf1), r.scales),
                              indices |-> WholeRef(FreshBuf(bf2), r.indices),
                              by |-> by, from |-> from]),
         bufs |-> bf3]

\* x[0][np.newaxis, ...] whatever i is.
RowViewFirst(ref, i) == [buf |-> ref.buf, lo |-> ref.lo, n |-> 1]

\* x[i][np.newaxis, ...]: basic indexing returns a view, row i of the array
\* x refers to, in x's own buffer.
RowView(ref, i) == [buf |-> ref.buf, lo |-> ref.lo + i, n |-> 1]

\* A new Expr instance for component i of object x, as __getitem__ builds it.
StoreItem(ob, bf, x, i, r) ==
    [objs |-> Append(ob, [basis |-> r.basis,
                          terms |-> RowView(ob[x].terms, i),
                          scales |-> RowView(ob[x].scales, i),
                          indices |-> RowView(ob[x].indices, i),
                          by |-> "getitem", from |-> {x}]),
     bufs |-> bf]

\* Rows written through an array reference land in its buffer.
WriteRows(bf, ref, rows) ==
    [bf EXCEPT ![ref.buf] =
        [k \in 1..Len(@) |-> IF k > ref.lo /\ k <= ref.lo + ref.n THEN rows[k - ref.lo] ELSE @[k]]]

\* Object x after __iadd__/__isub__ assigned the first c.done of its fields.
Rebind(ob, bf, x, c) ==
    LET bf1 == IF c.done >= 1 THEN Alloc(bf, c.terms) ELSE bf
        bf2 == IF c.done >= 2 THEN Alloc(bf1, c.scales) ELSE bf1
        bf3 == IF c.done >= 3 THEN Alloc(bf2, c.indices) ELSE bf2
        ob1 == [ob EXCEPT
                  ![x].terms = IF c.done >= 1 THEN WholeRef(FreshBuf(bf), c.terms) ELSE @,
                  ![x].scales = IF c.done >= 2 THEN WholeRef(FreshBuf(bf1), c.scales) ELSE @,
                  ![x].indices = IF c.done >= 3 THEN WholeRef(FreshBuf(bf2), c.indices) ELSE @]
    IN  [objs |-> ob1, bufs |-> Collect(ob1, bf3)]

\* ------------------------------------------------------------------ inputs
SpaceT == ScalarSpace("T", 2)

SpaceU == ScalarSpace("U", 2)

SpaceV == VectorSpace("V", 2)

SpaceW == ScalarSpace("W", 3)

\* The basis functions operators are applied to.
BasisInputs ==
    {TestFunction(SpaceT, 0), TrialFunction(SpaceT, 0), TestFunction(SpaceU, 0),
     TestFunction(SpaceV, 0)}

\* The basis functions Expr(basis, terms, scales, indices) is called with.
TensorBases == {TestFunction(SpaceV, 0), TestFunction(SpaceW, 0)}

\* The basis functions [i] is applied to: each class on a scalar and on a
\* vector space.
ItemBases ==
    {TestFunction(SpaceT, 0), TrialFunction(SpaceT, 0), BasisFunction(SpaceT, 2, 0),
     TestFunction(SpaceV, 0), TrialFunction(SpaceV, 0), BasisFunction(SpaceV, 2, 0)}

NoBasis == BasisFunction(ScalarSpace("-", 0), 0, 0)

\* Explicit tensors: one-term terms of shape (c, 1, d), d the number of
\* dimensions of the basis function's space ("stored as an array of len =
\* dim"), with derivative order c in every place; scales of shape (r, k) of
\* ones; indices of shape (r, 1) holding the row number.
Orders3(c, t, d) == [i \in 1..c |-> [j \in 1..t |-> [k \in 1..d |-> i]]]

RowNo2(r, k) == [i \in 1..r |-> [j \in 1..k |-> i - 1]]

TermsInputs(b) == {Orders3(c, 1, b.space.nd) : c \in 1..MaxComp}

ScalesInputs == {Ones2(r, k) : r \in 1..MaxComp, k \in 1..MaxTerms}

IndicesInputs == {RowNo2(r, 1) : r \in 1..MaxComp}

\* Operands: a number, a tuple of numbers and non-numbers, anything else, an
\* Expr instance of the heap, a BasisFunction.
NumArg(v) == [kind |-> "num", v |-> v, elems |-> <<>>, id |-> 0, b |-> NoBasis]

TupleArg(elems) == [kind |-> "tuple", v |-> 0, elems |-> elems, id |-> 0, b |-> NoBasis]

OtherArg == [kind |-> "other", v |-> 0, elems |-> <<>>, id |-> 0, b |-> NoBasis]

ExprArg(y) == [kind |-> "expr", v |-> 0, elems |-> <<>>, id |-> y, b |-> NoBasis]

BasisArg(b) == [kind |-> "basis", v |-> 0, elems |-> <<>>, id |-> 0, b |-> b]

NoArg == [kind |-> "none", v |-> 0, elems |-> <<>>, id |-> 0, b |-> NoBasis]

Num(v) == [num |-> TRUE, v |-> v]

NotNum == [num |-> FALSE, v |-> 0]

Multipliers ==
    {NumArg(2), OtherArg,
     TupleArg(<<Num(2)>>), TupleArg(<<Num(2), Num(3)>>), TupleArg(<<Num(2), NotNum>>),
     TupleArg(<<Num(2), Num(3), Num(5)>>)}

\* The operands of the right-multiply a * e, which only delegates.
RightMultipliers ==
    {NumArg(2), TupleArg(<<Num(2)>>), TupleArg(<<Num(2), Num(3)>>),
     TupleArg(<<Num(2), Num(3), Num(5)>>)}

Summands(ob) == {ExprArg(y) : y \in DOMAIN ob} \cup {BasisArg(b) : b \in BasisInputs} \cup {OtherArg}

\* ------------------------------------------------------------------ actions
\* What the last operator application was: the operator, its receiver (an
\* instance x, or a basis function b), its operand, its outcome (err, the new
\* or returned instance res, the basis function rb a BasisFunction.__getitem__
\* returned) and the heap it started from.
Last(op, x, b, arg, i, err, res, rb) ==
    [op |-> op, x |-> x, b |-> b, arg |-> arg, i |-> i, err |-> err, res |-> res,
     rb |-> rb, pre |-> [objs |-> objs, bufs |-> bufs]]

Init ==
    /\ objs = <<>>
    /\ bufs = <<>>
    /\ nops = 0
    /\ last = [op |-> "init", x |-> 0, b |-> NoBasis, arg |-> NoArg, i |-> 0,
               err |-> "none", res |-> 0, rb |-> NoBasis,
               pre |-> [objs |-> <<>>, bufs |-> <<>>]]

\* An exception is not caught: it ends the behaviour.  So do MaxOps operator
\* applications.
Running == last.err = "none" /\ nops < MaxOps

\* Only an operator application that created or changed an Expr is counted.
Counted == nops' = IF <<objs', bufs'>> = <<objs, bufs>> THEN nops ELSE nops + 1

\* An operator that returns a new Expr r (or fails with r.err) ends here.
Return(op, x, b, arg, i, r, from) ==
    /\ Running
    /\ IF r.err = "none"
       THEN LET h == StoreNew(objs, bufs, r, op, from)
            IN  /\ objs' = h.objs
                /\ bufs' = h.bufs
                /\ last' = Last(op, x, b, arg, i, "none", Len(objs) + 1, NoBasis)
       ELSE /\ UNCHANGED <<objs, bufs>>
            /\ last' = Last(op, x, b, arg, i, r.err, 0, NoBasis)
    /\ Counted

\* Expr(basis)
NewFromBasis(b) ==
    Return("Expr", 0, b, NoArg, 0, ExprInit(b, None, None, None), {})

\* Expr(basis, terms, scales, indices)
NewFromTensors(b, t, s, i) ==
    Return("ExprTensors", 0, b, NoArg, 0, ExprInit(b, t, s, i), {})

\* Expr(b[i]) for a BasisFunction b: the component is extracted, then lifted.
NewFromItem(b, i) ==
    Return("ExprItem", 0, b, NoArg, i,
           IF BasisGetItemErr(b, i) # "none"
           THEN [err |-> BasisGetItemErr(b, i), basis |-> b, terms |-> None,
                 scales |-> None, indices |-> None]
           ELSE ExprInit(BasisGetItem(b, i), None, None, None), {})

\* e * a, a * e
Mul(x, a) == Return("mul", x, NoBasis, a, 0, ExprMul(Deref(objs, bufs, x), a), {x})

RMul(x, a) == Return("rmul", x, NoBasis, a, 0, ExprRMul(Deref(objs, bufs, x), a), {x})

\* e *= a: the scales are written through the receiver's own array.
IMul(x, a) ==
    LET m == ExprIMul(Deref(objs, bufs, x), a)
    IN  /\ Running
        /\ objs' = objs
        /\ bufs' = WriteRows(bufs, objs[x].scales, m.sc)
        /\ last' = Last("imul", x, NoBasis, a, 0, m.err, IF m.err = "none" THEN x ELSE 0, NoBasis)
        /\ Counted

\* The operand of + and -: an Expr as it is, a BasisFunction lifted by Expr(a).
Lifted(a) ==
    IF a.kind = "expr" THEN Deref(objs, bufs, a.id) ELSE ExprInit(a.b, None, None, None)

Operands(x, a) == IF a.kind = "expr" THEN {x, a.id} ELSE {x}

IsSummand(a) == a.kind \in {"expr", "basis"}

Failed(e) == [err |-> "AssertionError", basis |-> e.basis, terms |-> e.terms,
              scales |-> e.scales, indices |-> e.indices]

\* e + a, e - a
Add(x, a) ==
    LET e == Deref(objs, bufs, x)
    IN  Return("add", x, NoBasis, a, 0,
               IF IsSummand(a) THEN ExprAdd(e, Lifted(a)) ELSE Failed(e), Operands(x, a))

Sub(x, a) ==
    LET e == Deref(objs, bufs, x)
    IN  Return("sub", x, NoBasis, a, 0,
               IF IsSummand(a) THEN ExprSub(e, Lifted(a)) ELSE Failed(e), Operands(x, a))

\* e += a, e -= a
InPlace(op, x, a, c) ==
    LET h == Rebind(objs, bufs, x, c)
    IN  /\ Running
        /\ objs' = h.objs
        /\ bufs' = h.bufs
        /\ last' = Last(op, x, NoBasis, a, 0, c.err, IF c.err = "none" THEN x ELSE 0, NoBasis)
        /\ Counted

NotSummand(e) == [err |-> "AssertionError", done |-> 0, terms |-> e.terms,
                  scales |-> e.scales, indices |-> e.indices]

IAdd(x, a) ==
    LET e == Deref(objs, bufs, x)
    IN  InPlace("iadd", x, a, IF IsSummand(a) THEN ExprIAdd(e, Lifted(a)) ELSE NotSummand(e))

ISub(x, a) ==
    LET e == Deref(objs, bufs, x)
    IN  InPlace("isub", x, a, IF IsSummand(a) THEN ExprISub(e, Lifted(a)) ELSE NotSummand(e))

\* -e
Neg(x) == Return("neg", x, NoBasis, NoArg, 0, ExprNeg(Deref(objs, bufs, x)), {x})

\* e[i]: the new instance holds views of the receiver's arrays.
GetItem(x, i) ==
    LET r == ExprGetItem(Deref(objs, bufs, x), i)
    IN  /\ Running
        /\ IF r.err = "none"
           THEN LET h == StoreItem(objs, bufs, x, i, r)
                IN  /\ objs' = h.objs
                    /\ bufs' = h.bufs
                    /\ last' = Last("getitem", x, NoBasis, NoArg, i, "none", Len(objs) + 1, NoBasis)
           ELSE /\ UNCHANGED <<objs, bufs>>
                /\ last' = Last("getitem", x, NoBasis, NoArg, i, r.err, 0, NoBasis)
        /\ Counted

\* b * a, a * b for a BasisFunction b: Expr(b) * a
BasisMul(b, a) ==
    Return("bmul", 0, b, a, 0, ExprMul(ExprInit(b, None, None, None), a), {})

BasisRMul(b, a) ==
    Return("brmul", 0, b, a, 0, ExprMul(ExprInit(b, None, None, None), a), {})

\* b + a, b - a for a BasisFunction b: Expr(b) + a, Expr(b) - a
BasisAdd(b, a) ==
    LET e == ExprInit(b, None, None, None)
    IN  Return("badd", 0, b, a, 0,
               IF IsSummand(a) THEN ExprAdd(e, Lifted(a)) ELSE Failed(e), Operands(0, a) \ {0})

BasisSub(b, a) ==
    LET e == ExprInit(b, None, None, None)
    IN  Return("bsub", 0, b, a, 0,
               IF IsSummand(a) THEN ExprSub(e, Lifted(a)) ELSE Failed(e), Operands(0, a) \ {0})

\* b *= a, b += a, b -= a for a BasisFunction b: raise RuntimeError
BasisInPlace(op, b, a) ==
    /\ Running
    /\ UNCHANGED <<objs, bufs>>
    /\ last' = Last(op, 0, b, a, 0, "RuntimeError", 0, NoBasis)
    /\ Counted

\* b[i] for a BasisFunction b
BasisItem(b, i) ==
    /\ Running
    /\ UNCHANGED <<objs, bufs>>
    /\ last' = Last("bgetitem", 0, b, NoArg, i, BasisGetItemErr(b, i), 0,
                    IF BasisGetItemErr(b, i) = "none" THEN BasisGetItem(b, i) ELSE NoBasis)
    /\ Counted

Next ==
    \/ \E b \in BasisInputs : NewFromBasis(b)
    \/ \E b \in TensorBases : \E t \in TermsInputs(b), s \in ScalesInputs, i \in IndicesInputs :
          NewFromTensors(b, t, s, i)
    \/ \E b \in BasisInputs, i \in 0..MaxIndex : NewFromItem(b, i)
    \/ \E x \in DOMAIN objs, a \in Multipliers : Mul(x, a)
    \/ \E x \in DOMAIN objs, a \in RightMultipliers : RMul(x, a)
    \/ \E x \in DOMAIN objs, a \in Multipliers : IMul(x, a)
    \/ \E x \in DOMAIN objs, a \in Summands(objs) : Add(x, a)
    \/ \E x \in DOMAIN objs, a \in Summands(objs) : Sub(x, a)
    \/ \E x \in DOMAIN objs, a \in Summands(objs) : IAdd(x, a)
    \/ \E x \in DOMAIN objs, a \in Summands(objs) : ISub(x, a)
    \/ \E x \in DOMAIN objs : Neg(x)
    \/ \E x \in DOMAIN objs, i \in 0..MaxIndex : GetItem(x, i)
    \/ \E b \in BasisInputs, a \in Multipliers : BasisMul(b, a)
    \/ \E b \in BasisInputs, a \in RightMultipliers : BasisRMul(b, a)
    \/ \E b \in BasisInputs, a \in Summands(objs) : BasisAdd(b, a)
    \/ \E b \in BasisInputs, a \in Summands(objs) : BasisSub(b, a)
    \/ \E b \in BasisInputs : BasisInPlace("bimul", b, NumArg(2))
    \/ \E b \in BasisInputs : BasisInPlace("biadd", b, BasisArg(b))
    \/ \E b \in BasisInputs : BasisInPlace("bisub", b, BasisArg(b))
    \/ \E b \in ItemBases, i \in 0..MaxIndex : BasisItem(b, i)

Spec == Init /\ [][Next]_vars

\* ------------------------------------------------------------------ claims
\* Instance x as it is now, and as it was when the last operator was applied.
Cur(x) == Deref(objs, bufs, x)

Pre(x) == Deref(last.pre.objs, last.pre.bufs, x)

\* terms of shape (C,T,D), scales of shape (C,T), indices of shape (C,T)
WellShaped(e) ==
    /\ Dim0(e.scales) = Dim0(e.terms)
    /\ Dim1(e.scales) = Dim1(e.terms)
    /\ Dim0(e.indices) = Dim0(e.terms)
    /\ Dim1(e.indices) = Dim1(e.terms)

SameTensors(e, f) == e.terms = f.terms /\ e.scales = f.scales /\ e.indices = f.indices

HeapUnchanged == objs = last.pre.objs /\ bufs = last.pre.bufs

AddOps == {"add", "iadd", "badd"}

SubOps == {"sub", "isub", "bsub"}

InPlaceOps == {"imul", "iadd", "isub"}

MulOps == {"mul", "rmul", "imul", "bmul", "brmul"}

\* The left operand of the last operator (a BasisFunction receiver lifted to
\* its one-term identity Expr) and, for + and -, the right operand.
Left ==
    IF last.x = 0 THEN ExprInit(last.b, None, None, None) ELSE Pre(last.x)

Right ==
    IF last.arg.kind = "expr" THEN Pre(last.arg.id)
    ELSE ExprInit(last.arg.b, None, None, None)

\* The Expr the last operator returned.
Result == Cur(last.res)

Differ(a, b) ==
    \/ Dim0(a.terms) # Dim0(b.terms)
    \/ a.basis.space # b.basis.space
    \/ a.basis.argument # b.basis.argument

\* C1: every Expr that exists has terms of shape (C,T,D) and scales and
\* indices of shape (C,T), and a construction from explicit tensors with
\* size(scales) # C*T or size(indices) # C*T produces no Expr.
C1_ShapeInvariant ==
    /\ \A x \in DOMAIN objs : WellShaped(Cur(x))
    /\ last.op = "ExprTensors" /\ last.err = "none" =>
          /\ Size2(Result.scales) = NumComponents(Result) * NumTerms(Result)
          /\ Size2(Result.indices) = NumComponents(Result) * NumTerms(Result)

\* C1: a construction from explicit tensors was accepted.
C1_Constructed == last.op = "ExprTensors" /\ last.err = "none" /\ last.res \in DOMAIN objs

\* C2: for compatible operands a and b, a+b, a-b, a+=b and a-=b have the
\* terms, scales (b's negated for subtraction) and indices of a followed by
\* those of b along the term axis, so the numbers of terms add up, and the
\* in-place forms return the receiver itself.
C2_Concatenation ==
    last.op \in AddOps \cup SubOps /\ IsSummand(last.arg) /\ ~Differ(Left, Right) =>
        /\ last.err = "none"
        /\ last.res \in DOMAIN objs
        /\ Dim0(Result.terms) = Dim0(Left.terms)
        /\ Dim0(Result.scales) = Dim0(Left.scales)
        /\ Dim0(Result.indices) = Dim0(Left.indices)
        /\ \A c \in 1..Dim0(Left.terms) : Result.terms[c] = Left.terms[c] \o Right.terms[c]
        /\ \A c \in 1..Dim0(Left.indices) : Result.indices[c] = Left.indices[c] \o Right.indices[c]
        /\ \A c \in 1..Dim0(Left.scales) :
              Result.scales[c] =
                  Left.scales[c] \o
                  [t \in 1..Len(Right.scales[c]) |->
                      IF last.op \in SubOps THEN 0 - Right.scales[c][t] ELSE Right.scales[c][t]]
        /\ NumTerms(Result) = NumTerms(Left) + NumTerms(Right)
        /\ last.op \in InPlaceOps => last.res = last.x /\ Len(objs) = Len(last.pre.objs)

\* C2: compatible operands were added or subtracted and a result came back.
C2_Added ==
    /\ last.op \in AddOps \cup SubOps /\ IsSummand(last.arg) /\ ~Differ(Left, Right)
    /\ last.err = "none"

\* C3: +, -, += and -= (the left operand an Expr or a BasisFunction lifted to
\* one) fail with the incompatible-operand error, produce no Expr and change
\* nothing whenever the operands differ in component count, function space
\* or argument; they succeed only when all three agree.
C3_IncompatibleFails ==
    last.op \in AddOps \cup SubOps /\ IsSummand(last.arg) =>
        /\ Differ(Left, Right) =>
              /\ last.err = "AssertionError"
              /\ last.res = 0
              /\ HeapUnchanged
        /\ last.err = "none" => ~Differ(Left, Right)

\* C3: a test-function Expr and a trial-function operand of the same space
\* and component count were combined in place, and the operator failed.
C3_Witness ==
    /\ last.op \in {"iadd", "isub"} /\ IsSummand(last.arg)
    /\ Dim0(Left.terms) = Dim0(Right.terms)
    /\ Left.basis.space = Right.basis.space
    /\ Left.basis.argument # Right.basis.argument
    /\ last.err = "AssertionError"

AllNumbers(elems) == \A k \in 1..Len(elems) : elems[k].num

\* C4: a rank-2 Expr (C > 1) times a tuple a of D numbers has every
\* component's scale row scaled by its own tuple element, scales[c,t]*a[c]
\* for every c in 0..C-1, with terms and indices unchanged; times a single
\* number s it has scales[c,t]*s for every c and t.  Stated here for
\* receivers that have the shapes (C,T,D), (C,T), (C,T).
C4_PerComponent ==
    last.op \in MulOps /\ ExprRank(Left) = 2 /\ WellShaped(Left) =>
        /\ last.arg.kind = "tuple" /\ Len(last.arg.elems) = ExprDim(Left)
             /\ AllNumbers(last.arg.elems) =>
              /\ last.err = "none"
              /\ last.res \in DOMAIN objs
              /\ Result.terms = Left.terms
              /\ Result.indices = Left.indices
              /\ Dim0(Result.scales) = Dim0(Left.scales)
              /\ \A c \in 1..Dim0(Left.scales) :
                    /\ c <= Len(last.arg.elems)
                    /\ Result.scales[c] =
                          [t \in 1..Len(Left.scales[c]) |-> Left.scales[c][t] * last.arg.elems[c].v]
        /\ last.arg.kind = "num" =>
              /\ last.err = "none"
              /\ last.res \in DOMAIN objs
              /\ Result.terms = Left.terms
              /\ Result.indices = Left.indices
              /\ Dim0(Result.scales) = Dim0(Left.scales)
              /\ \A c \in 1..Dim0(Left.scales) :
                    Result.scales[c] =
                        [t \in 1..Len(Left.scales[c]) |-> Left.scales[c][t] * last.arg.v]

\* C4: a rank-2 Expr was multiplied by a tuple of D numbers.
C4_Multiplied ==
    /\ last.op \in MulOps /\ ExprRank(Left) = 2 /\ WellShaped(Left)
    /\ last.arg.kind = "tuple" /\ Len(last.arg.elems) = ExprDim(Left)
    /\ AllNumbers(last.arg.elems)
    /\ last.err = "none"

\* C5: *, right-multiply and *= of an Expr with one component (rank 1) by
\* any tuple, and of an Expr with several components (rank 2) by a tuple
\* whose length is not the number of spatial dimensions, fail with one and
\* the same error and return no Expr.
C5_TupleRejected ==
    last.op \in MulOps /\ last.arg.kind = "tuple" =>
        /\ ExprRank(Left) = 1 => last.err = "AssertionError" /\ last.res = 0
        /\ ExprRank(Left) = 2 /\ Len(last.arg.elems) # ExprDim(Left) =>
              last.err = "AssertionError" /\ last.res = 0

\* C5: a rank-2 Expr was multiplied in place by a tuple of the wrong length,
\* and the operator failed.
C5_Witness ==
    /\ last.op = "imul" /\ last.arg.kind = "tuple"
    /\ ExprRank(Left) = 2 /\ Len(last.arg.elems) # ExprDim(Left)
    /\ last.err = "AssertionError"

\* Every instance that existed before the last operator is what it was.
OthersUnchanged(skip) ==
    /\ Len(objs) >= Len(last.pre.objs)
    /\ \A y \in DOMAIN last.pre.objs \ skip : objs[y] = last.pre.objs[y] /\ Cur(y) = Pre(y)

\* C6: for a multiplier the operator accepts, e*a and a*e return an instance
\* that is not e and leave e's terms, scales and indices as they were; e*=a
\* returns the instance e itself, with its terms and indices unchanged and
\* its scales the scaled values (every scale times the number a; for a tuple
\* a the scales e*a computes).
C6_MulFrame ==
    /\ last.op \in {"mul", "rmul"} /\ last.err = "none" =>
          /\ last.res # last.x
          /\ last.res \notin DOMAIN last.pre.objs
          /\ objs[last.x] = last.pre.objs[last.x]
          /\ SameTensors(Cur(last.x), Pre(last.x))
    /\ last.op = "imul" /\ last.err = "none" =>
          /\ last.res = last.x
          /\ objs = last.pre.objs
          /\ Cur(last.x).terms = Pre(last.x).terms
          /\ Cur(last.x).indices = Pre(last.x).indices
          /\ Dim0(Cur(last.x).scales) = Dim0(Pre(last.x).scales)
          /\ last.arg.kind = "num" =>
                \A c \in 1..Dim0(Pre(last.x).scales) :
                    Cur(last.x).scales[c] =
                        [t \in 1..Len(Pre(last.x).scales[c]) |->
                            Pre(last.x).scales[c][t] * last.arg.v]
          /\ last.arg.kind = "tuple" =>
                Cur(last.x).scales = MulScales(Pre(last.x), last.arg).sc

\* C6: an in-place multiply by a tuple changed the receiver's scales.
C6_Witness ==
    /\ last.op = "imul" /\ last.err = "none" /\ last.arg.kind = "tuple"
    /\ Cur(last.x).scales # Pre(last.x).scales

\* The instances y was built from, and those built from y.
Related(x, y) == x # y /\ (y \in objs[x].from \/ x \in objs[y].from)

\* C7: an Expr returned by +, -, *, unary - or [i] shares no mutable tensor
\* with an operand it was built from: an in-place operator applied to the
\* one leaves the terms, scales and indices of the other unchanged.
C7_NoSharing ==
    last.op \in InPlaceOps /\ last.err = "none" =>
        \A y \in DOMAIN last.pre.objs :
            Related(last.x, y) => SameTensors(Cur(y), Pre(y))

\* C7: an in-place operator was applied to an Expr returned by [i].
C7_Witness ==
    /\ last.op \in InPlaceOps /\ last.err = "none"
    /\ objs[last.x].by = "getitem"

\* Row i (0-based) exists in all three tensors of e, and the row of scales
\* has one entry per term.
HasComponent(e, i) ==
    /\ i < Dim0(e.terms) /\ i < Dim0(e.scales) /\ i < Dim0(e.indices)
    /\ Len(e.scales[i + 1]) = Dim1(e.terms)

\* C8 as stated: [i] on a rank-1 BasisFunction or Expr fails for every i,
\* i = 0 included, and succeeds only on rank-2 entities.
C8_Rank1Fails ==
    /\ last.op = "bgetitem" /\ BasisRank(last.b) = 1 => last.err # "none"
    /\ last.op = "getitem" /\ Rank(Pre(last.x)) = 1 => last.err # "none"
    /\ last.op = "bgetitem" /\ last.err = "none" => BasisRank(last.b) = 2
    /\ last.op = "getitem" /\ last.err = "none" => Rank(Pre(last.x)) = 2

\* C8 amended: [i] on a rank-1 BasisFunction (TestFunction, TrialFunction
\* or the base class) fails for every i, i = 0 included; on an Expr whose
\* basis is rank 1 it is not refused: e[i] succeeds exactly when row i exists
\* in the three tensors with one scale per term, so e[0] of a one-term
\* identity Expr succeeds, and the Expr it returns has e's basis; an i
\* beyond a tensor's rows fails with an index error.
C8_Rank1Extraction ==
    /\ last.op = "bgetitem" /\ BasisRank(last.b) = 1 =>
          last.err = "AssertionError" /\ last.rb = NoBasis
    /\ last.op = "bgetitem" /\ last.err = "none" => BasisRank(last.b) = 2
    /\ last.op = "getitem" /\ Rank(Pre(last.x)) = 1 =>
          /\ last.err = "none" <=> HasComponent(Pre(last.x), last.i)
          /\ last.err = "none" =>
                /\ last.res \notin DOMAIN last.pre.objs
                /\ Result.basis = Pre(last.x).basis
                /\ Result.terms = <<Pre(last.x).terms[last.i + 1]>>
          /\ (\/ last.i >= Dim0(Pre(last.x).terms)
              \/ last.i >= Dim0(Pre(last.x).scales)
              \/ last.i >= Dim0(Pre(last.x).indices)) => last.err = "IndexError"

\* C8: component 0 of an Expr on a scalar space was extracted.
C8_Witness ==
    /\ last.op = "getitem" /\ Rank(Pre(last.x)) = 1 /\ last.i = 0
    /\ last.err = "none"
    /\ Result.basis = Pre(last.x).basis

\* C9: for an Expr e on a vector space with tensors of shape (C,T,D), (C,T),
\* (C,T) and a component i of e and of its space, e[i] is an Expr of one
\* component (shapes (1,T,D), (1,T), (1,T)) whose terms[0], scales[0] and
\* indices[0] are e.terms[i], e.scales[i] and e.indices[i], whose basis is
\* e's basis (same class) on the i-th scalar sub-space with index i, and
\* whose argument is e's.
C9_ComponentSlice ==
    /\ last.op = "getitem"
    /\ Rank(Pre(last.x)) = 2
    /\ WellShaped(Pre(last.x))
    /\ last.i < NumComponents(Pre(last.x))
    /\ last.i < Pre(last.x).basis.space.nc
    => /\ last.err = "none"
       /\ last.res \notin DOMAIN last.pre.objs
       /\ Dim0(Result.terms) = 1 /\ Dim0(Result.scales) = 1 /\ Dim0(Result.indices) = 1
       /\ Dim1(Result.terms) = NumTerms(Pre(last.x))
       /\ Dim2(Result.terms) = ExprDim(Pre(last.x))
       /\ Dim1(Result.scales) = NumTerms(Pre(last.x))
       /\ Dim1(Result.indices) = NumTerms(Pre(last.x))
       /\ Result.terms[1] = Pre(last.x).terms[last.i + 1]
       /\ Result.scales[1] = Pre(last.x).scales[last.i + 1]
       /\ Result.indices[1] = Pre(last.x).indices[last.i + 1]
       /\ Result.basis.cls = Pre(last.x).basis.cls
       /\ Result.basis.index = last.i
       /\ Result.basis.space.name = Pre(last.x).basis.space.name
       /\ Result.basis.space.comp = last.i + 1
       /\ Result.basis.space.nc = 1
       /\ BasisRank(Result.basis) = 1
       /\ Argument(Result) = Argument(Pre(last.x))

\* C9: component 1 of a two-component Expr on a vector space was extracted,
\* and its rows differ from those of component 0.
C9_Witness ==
    /\ last.op = "getitem" /\ Rank(Pre(last.x)) = 2 /\ WellShaped(Pre(last.x))
    /\ last.i = 1 /\ last.err = "none"
    /\ Pre(last.x).terms[1] # Pre(last.x).terms[2]
    /\ Pre(last.x).indices[1] # Pre(last.x).indices[2]

\* f has the terms and indices of e and every scale of e negated.
IsNegationOf(f, e) ==
    /\ f.terms = e.terms
    /\ f.indices = e.indices
    /\ Dim0(f.scales) = Dim0(e.scales)
    /\ \A c \in 1..Dim0(e.scales) :
          f.scales[c] = [t \in 1..Len(e.scales[c]) |-> 0 - e.scales[c][t]]

\* C10: -e is a new Expr with the terms and indices of e and every scale of
\* e negated, and e is unchanged; and where e is itself the negation -d of
\* an Expr d, -e has the terms, scales and indices of d.
C10_Negation ==
    last.op = "neg" =>
        /\ last.err = "none"
        /\ last.res \notin DOMAIN last.pre.objs
        /\ IsNegationOf(Result, Pre(last.x))
        /\ Result.basis = Pre(last.x).basis
        /\ OthersUnchanged({})
        /\ \A d \in DOMAIN last.pre.objs :
              /\ last.pre.objs[last.x].by = "neg"
              /\ d \in last.pre.objs[last.x].from
              /\ IsNegationOf(Pre(last.x), Pre(d))
              => SameTensors(Result, Pre(d))

\* C10: the negation -d of an Expr d with non-zero scales was negated.
C10_Witness ==
    /\ last.op = "neg" /\ last.err = "none"
    /\ last.pre.objs[last.x].by = "neg"
    /\ \E d \in last.pre.objs[last.x].from :
          /\ IsNegationOf(Pre(last.x), Pre(d))
          /\ SameTensors(Result, Pre(d))
          /\ \E c \in 1..Dim0(Pre(d).scales) : Pre(d).scales[c][1] # 0

\* C11: an in-place operator (*=, +=, -=) that raises leaves the receiver's
\* terms, scales and indices as they were before the call.  Stated here for
\* operands that have the shapes (C,T,D), (C,T), (C,T).
C11_FailedInPlaceUnchanged ==
    /\ last.op \in InPlaceOps /\ last.err # "none"
    /\ WellShaped(Pre(last.x))
    /\ last.arg.kind = "expr" => WellShaped(Right)
    => /\ objs[last.x] = last.pre.objs[last.x]
       /\ SameTensors(Cur(last.x), Pre(last.x))

\* C11: *= on a rank-2 Expr raised on a tuple of the right length whose
\* first element is a number and whose second is not.
C11_Witness ==
    /\ last.op = "imul" /\ last.err = "AssertionError"
    /\ ExprRank(Pre(last.x)) = 2 /\ WellShaped(Pre(last.x))
    /\ last.arg.kind = "tuple" /\ Len(last.arg.elems) = ExprDim(Pre(last.x))
    /\ last.arg.elems[1].num /\ ~last.arg.elems[2].num

\* Instance x still has the tensors lifting its basis gave it.
AsLifted(x) == SameTensors(Cur(x), ExprInit(objs[x].basis, None, None, None))

\* C12: for a rank-2 BasisFunction v and a component i, Expr(v)[i] and
\* Expr(v[i]) have the same terms, scales and indices: whichever of the two
\* is built last, it has the tensors of the other.
C12_LiftExtractCommute ==
    /\ last.op = "ExprItem" /\ last.err = "none" =>
          \A x \in DOMAIN last.pre.objs : \A e \in objs[x].from :
              /\ objs[x].by = "getitem" /\ objs[e].by = "Expr"
              /\ objs[e].basis = last.b /\ objs[x].basis = Result.basis
              /\ AsLifted(e)
              => SameTensors(Cur(x), Result)
    /\ last.op = "getitem" /\ last.err = "none" =>
          \A y \in DOMAIN last.pre.objs :
              /\ objs[last.x].by = "Expr" /\ BasisRank(objs[last.x].basis) = 2
              /\ AsLifted(last.x)
              /\ objs[y].by = "ExprItem" /\ objs[y].basis = Result.basis
              /\ AsLifted(y)
              => SameTensors(Result, Cur(y))

\* C12: component 1 of a rank-2 BasisFunction v was lifted, Expr(v[1]), while
\* Expr(v)[1] exists.
C12_Witness ==
    /\ last.op = "ExprItem" /\ last.err = "none" /\ last.i = 1
    /\ BasisRank(last.b) = 2
    /\ \E x \in DOMAIN last.pre.objs : \E e \in objs[x].from :
          /\ objs[x].by = "getitem" /\ objs[e].by = "Expr"
          /\ objs[e].basis = last.b /\ objs[x].basis = Result.basis
          /\ AsLifted(e)

====
